---- MODULE Spec2Model ----
(***************************************************************************)
(* A model of the transaction layer of tifs (src/src/fs/transaction.rs):   *)
(* the filesystem operations of Txn, each a sequence of get/put/delete/    *)
(* scan calls on one optimistic key-value transaction.                     *)
(*                                                                         *)
(* A transaction is its view of the store (the snapshot it reads, with     *)
(* its own buffered writes applied) and the set of keys it has written.    *)
(* Timestamps, permissions, uid/gid and lock state are left out: no        *)
(* operation reads them.                                                   *)
(***************************************************************************)
EXTENDS Integers, Sequences, FiniteSets, TLC

\* ------------------------------------------------------------ bounds
\* The inode counter is capped: no allocation once inode_next > MaxIno.
MaxIno == 4
\* Operations run one after another in the sequential specifications.
MaxSteps == 4
\* Of these, the record primitives a caller runs on their own, and the
\* link counts it passes to save_inode.
MaxRaw == 1
MaxNlink == 3
\* Content operations run one after another on the file.
MaxDataSteps == 3
\* Concurrent transactions, operations one transaction may run before it
\* commits, and operations run by all transactions together.
MaxTxn == 2
MaxOps == 2
MaxWork == 4
\* Content bytes written by callers are 1..MaxByte (0 is the fill byte).
MaxByte == 1
\* Largest write offset and longest write of the content specification.
MaxOff == 4
MaxLen == 2

\* ------------------------------------------------- program constants
ROOT_INODE == 1
BLOCK_SIZE == 2
INLINE_DATA_THRESHOLD == 2

Names == {"a", "b"}
Inos == 1..MaxIno
Kinds == {"RegularFile", "Directory", "Symlink"}

\* Option<T>: None is the empty sequence, Some(x) the one-element sequence.
None == <<>>
Some(x) == <<x>>

\* ------------------------------------------------------------- keys
MetaKey == <<"meta">>
InodeKey(ino) == <<"inode", ino>>
DirKey(ino) == <<"dir", ino>>
BlockKey(ino, block) == <<"block", ino, block>>
IndexKey(parent, name) == <<"index", parent, name>>

\* ---------------------------------------------------- the transaction
EmptyTxn == [kv |-> <<>>, w |-> {}]

BeginOn(kv) == [kv |-> kv, w |-> {}]

get(t, k) == IF k \in DOMAIN t.kv THEN Some(t.kv[k]) ELSE None

put(t, k, v) ==
  [kv |-> [x \in (DOMAIN t.kv) \cup {k} |-> IF x = k THEN v ELSE t.kv[x]],
   w |-> t.w \cup {k}]

delete(t, k) ==
  [kv |-> [x \in (DOMAIN t.kv) \ {k} |-> t.kv[x]],
   w |-> t.w \cup {k}]

\* Result<T>: the transaction after the call, "ok" or the error, the value.
Ret(t, res, val) == [t |-> t, res |-> res, val |-> val]
Ok(t, val) == Ret(t, "ok", val)
Err(t, e) == Ret(t, e, 0)

\* ------------------------------------------------------- inode table
read_inode(t, ino) == get(t, InodeKey(ino))

\* save_inode without the tombstone rule.
save_inode_always_put(t, inode) == put(t, InodeKey(inode.ino), inode)

save_inode(t, inode) ==
  IF inode.nlink = 0
    THEN delete(t, InodeKey(inode.ino))
    ELSE put(t, InodeKey(inode.ino), inode)

remove_inode(t, ino) == delete(t, InodeKey(ino))

\* Meta::default(): the counter starts at the root's inode number.
MetaDefault == ROOT_INODE

read_meta(t) == get(t, MetaKey)

save_meta(t, inode_next) == put(t, MetaKey, inode_next)

\* ---------------------------------------------------------- the index
get_index(t, parent, name) == get(t, IndexKey(parent, name))

set_index(t, parent, name, ino) == put(t, IndexKey(parent, name), ino)

remove_index(t, parent, name) == delete(t, IndexKey(parent, name))

lookup(t, parent, name) ==
  LET v == get_index(t, parent, name)
  IN IF v = None THEN Err(t, "FileNotFound") ELSE Ok(t, v[1])

\* ------------------------------------------------- directory listings
\* The byte length of the encoded listing, which save_dir stores as the
\* directory's size.  The codec is an external collaborator; the length
\* is taken to grow by one unit per entry.
encoded_len(dir) == Len(dir)

read_dir(t, ino) == get(t, DirKey(ino))

save_dir(t, ino, dir) ==
  LET a == read_inode(t, ino)
  IN IF a = None THEN Err(t, "InodeNotFound")
     ELSE LET attr == [a[1] EXCEPT !.size = encoded_len(dir)]
              t1 == save_inode(t, attr)
          IN Ok(put(t1, DirKey(ino), dir), 0)

DirItem(ino, name, typ) == [ino |-> ino, name |-> name, typ |-> typ]

RECURSIVE FilterName(_, _)
FilterName(dir, name) ==
  IF dir = <<>> THEN <<>>
  ELSE IF Head(dir).name # name
         THEN <<Head(dir)>> \o FilterName(Tail(dir), name)
         ELSE FilterName(Tail(dir), name)

\* ------------------------------------------------------ make_inode
NewInode(ino, typ) ==
  [ino |-> ino, kind |-> typ, nlink |-> 1, size |-> 0, inline |-> None]

\* make_inode that forgets to write the counter back.
make_inode_no_counter(t, parent, name, typ) ==
  LET m == read_meta(t)
      ino == IF m = None THEN MetaDefault ELSE m[1]
      t1 == t
      fin(tt) == Ok(save_inode(tt, NewInode(ino, typ)), ino)
  IN IF parent >= ROOT_INODE
       THEN IF get_index(t1, parent, name) # None
              THEN Err(t1, "FileExist")
              ELSE LET t2 == set_index(t1, parent, name, ino)
                       d == read_dir(t2, parent)
                   IN IF d = None THEN Err(t2, "BlockNotFound")
                      ELSE LET sd == save_dir(t2, parent,
                                       Append(d[1], DirItem(ino, name, typ)))
                           IN IF sd.res # "ok" THEN Err(sd.t, sd.res)
                              ELSE fin(sd.t)
       ELSE fin(t1)

make_inode(t, parent, name, typ) ==
  LET m == read_meta(t)
      ino == IF m = None THEN MetaDefault ELSE m[1]
      t1 == save_meta(t, ino + 1)
      fin(tt) == Ok(save_inode(tt, NewInode(ino, typ)), ino)
  IN IF parent >= ROOT_INODE
       THEN IF get_index(t1, parent, name) # None
              THEN Err(t1, "FileExist")
              ELSE LET t2 == set_index(t1, parent, name, ino)
                       d == read_dir(t2, parent)
                   IN IF d = None THEN Err(t2, "BlockNotFound")
                      ELSE LET sd == save_dir(t2, parent,
                                       Append(d[1], DirItem(ino, name, typ)))
                           IN IF sd.res # "ok" THEN Err(sd.t, sd.res)
                              ELSE fin(sd.t)
       ELSE fin(t1)

mkdir(t, parent, name) ==
  LET r == make_inode(t, parent, name, "Directory")
  IN IF r.res # "ok" THEN r
     ELSE LET sd == save_dir(r.t, r.val, <<>>)
          IN IF sd.res # "ok" THEN Err(sd.t, sd.res) ELSE Ok(sd.t, r.val)

\* ------------------------------------------------ unlink, rmdir, link
\* unlink that forgets to rewrite the parent's listing.
unlink_keep_listing(t, parent, name) ==
  LET ix == get_index(t, parent, name)
  IN IF ix = None THEN Err(t, "FileNotFound")
     ELSE LET t1 == remove_index(t, parent, name)
              a == read_inode(t1, ix[1])
          IN IF a = None THEN Err(t1, "InodeNotFound")
             ELSE Ok(save_inode(t1, [a[1] EXCEPT !.nlink = @ - 1]), 0)

unlink(t, parent, name) ==
  LET ix == get_index(t, parent, name)
  IN IF ix = None THEN Err(t, "FileNotFound")
     ELSE LET ino == ix[1]
              t1 == remove_index(t, parent, name)
              d == read_dir(t1, parent)
          IN IF d = None THEN Err(t1, "BlockNotFound")
             ELSE LET sd == save_dir(t1, parent, FilterName(d[1], name))
                  IN IF sd.res # "ok" THEN Err(sd.t, sd.res)
                     ELSE LET a == read_inode(sd.t, ino)
                          IN IF a = None THEN Err(sd.t, "InodeNotFound")
                             ELSE Ok(save_inode(sd.t,
                                       [a[1] EXCEPT !.nlink = @ - 1]), 0)

rmdir(t, parent, name) ==
  LET ix == get_index(t, parent, name)
  IN IF ix = None THEN Err(t, "FileNotFound")
     ELSE LET ino == ix[1]
              td == read_dir(t, ino)
          IN IF td = None THEN Err(t, "BlockNotFound")
             ELSE IF Len(td[1]) # 0 THEN Err(t, "DirNotEmpty")
             ELSE LET t1 == remove_index(t, parent, name)
                      t2 == remove_inode(t1, ino)
                      d == read_dir(t2, parent)
                  IN IF d = None THEN Err(t2, "BlockNotFound")
                     ELSE LET sd == save_dir(t2, parent, FilterName(d[1], name))
                          IN IF sd.res # "ok" THEN Err(sd.t, sd.res)
                             ELSE Ok(sd.t, 0)

\* The first half of link: detach whatever the name resolves to.
link_detach(t, newparent, newname) ==
  LET old == get_index(t, newparent, newname)
  IN IF old = None THEN Ok(t, 0)
     ELSE LET a == read_inode(t, old[1])
          IN IF a = None THEN Err(t, "InodeNotFound")
             ELSE IF a[1].kind = "Directory"
                    THEN rmdir(t, newparent, newname)
                    ELSE unlink(t, newparent, newname)

link_attach(t, ino, newparent, newname) ==
  LET t1 == set_index(t, newparent, newname, ino)
      a == read_inode(t1, ino)
  IN IF a = None THEN Err(t1, "InodeNotFound")
     ELSE LET d == read_dir(t1, newparent)
          IN IF d = None THEN Err(t1, "BlockNotFound")
             ELSE LET sd == save_dir(t1, newparent,
                              Append(d[1], DirItem(ino, newname, a[1].kind)))
                  IN IF sd.res # "ok" THEN Err(sd.t, sd.res)
                     ELSE Ok(save_inode(sd.t, [a[1] EXCEPT !.nlink = @ + 1]), ino)

link(t, ino, newparent, newname) ==
  LET r == link_detach(t, newparent, newname)
  IN IF r.res # "ok" THEN Err(r.t, r.res)
     ELSE link_attach(r.t, ino, newparent, newname)

\* ------------------------------------------------------ file content
Min(a, b) == IF a < b THEN a ELSE b
Max(a, b) == IF a > b THEN a ELSE b

empty_block == [i \in 1..BLOCK_SIZE |-> 0]

\* Vec::resize(n, 0): cut to n elements or padded with zeros.
Resize(v, n) == [i \in 1..n |-> IF i <= Len(v) THEN v[i] ELSE 0]

\* buf[start .. start + len(data)] = data, start counted from 0.
CopyInto(buf, start, data) ==
  [i \in 1..Len(buf) |->
     IF i > start /\ i <= start + Len(data) THEN data[i - start] ELSE buf[i]]

\* Returns the transaction and the inode, both updated.
transfer_inline_data_to_block(t, inode) ==
  [t |-> put(t, BlockKey(inode.ino, 0), Resize(inode.inline[1], BLOCK_SIZE)),
   inode |-> [inode EXCEPT !.inline = None]]

write_inline_data(t, inode, start, data) ==
  LET size == Len(data)
      old == IF inode.inline = None THEN <<>> ELSE inode.inline[1]
      grown == IF start + size > Len(old) THEN Resize(old, start + size) ELSE old
      inlined == CopyInto(grown, start, data)
  IN Ok(save_inode(t, [inode EXCEPT !.size = Len(inlined),
                                    !.inline = Some(inlined)]), size)

read_inline_data(t, inode, start, size) ==
  LET inlined == inode.inline[1]
      to_copy == IF Len(inlined) > start
                   THEN Min(size, Len(inlined) - start) ELSE 0
      data == [i \in 1..size |-> IF i <= to_copy THEN inlined[start + i] ELSE 0]
  IN Ok(save_inode(t, inode), data)

\* scan(block_range(ino, lo..hi), limit): the stored blocks of the range in
\* ascending key order, at most limit of them, as <<block index, value>>.
RECURSIVE scan(_, _, _, _, _)
scan(t, ino, lo, hi, limit) ==
  IF lo >= hi \/ limit = 0 THEN <<>>
  ELSE IF BlockKey(ino, lo) \in DOMAIN t.kv
         THEN <<<<lo, t.kv[BlockKey(ino, lo)]>>>>
                \o scan(t, ino, lo + 1, hi, limit - 1)
         ELSE scan(t, ino, lo + 1, hi, limit)

\* n empty blocks (none when n <= 0, as an empty range maps to nothing).
RECURSIVE Holes(_)
Holes(n) == IF n <= 0 THEN <<>> ELSE <<empty_block>> \o Holes(n - 1)

\* The flat_map of read_data: before the i-th pair of the scan (i from 0)
\* come the empty blocks of the range start_block + i .. key.
RECURSIVE FlatMapPairs(_, _, _)
FlatMapPairs(pairs, i, start_block) ==
  IF pairs = <<>> THEN <<>>
  ELSE Holes(Head(pairs)[1] - (start_block + i))
         \o <<Head(pairs)[2]>>
         \o FlatMapPairs(Tail(pairs), i + 1, start_block)

\* The fold of read_data: the values appended, the first one from the
\* offset of start in its block.
RECURSIVE FoldValues(_, _, _)
FoldValues(values, i, skip) ==
  IF values = <<>> THEN <<>>
  ELSE (IF i = 0 THEN SubSeq(Head(values), skip + 1, Len(Head(values)))
                 ELSE Head(values))
         \o FoldValues(Tail(values), i + 1, skip)

\* chunk_size is an Option<u64>.
read_data(t, ino, start, chunk_size) ==
  LET a == read_inode(t, ino)
  IN IF a = None THEN Err(t, "InodeNotFound")
     ELSE LET attr == a[1]
          IN IF start >= attr.size THEN Ok(t, <<>>)
             ELSE LET max_size == attr.size - start
                      size == Min(IF chunk_size = None THEN max_size
                                  ELSE chunk_size[1], max_size)
                  IN IF attr.inline # None
                       THEN read_inline_data(t, attr, start, size)
                       ELSE LET target == start + size
                                start_block == start \div BLOCK_SIZE
                                end_block == (target + BLOCK_SIZE - 1) \div BLOCK_SIZE
                                pairs == scan(t, ino, start_block, end_block,
                                              end_block - start_block)
                                data == FoldValues(
                                          FlatMapPairs(pairs, 0, start_block),
                                          0, start % BLOCK_SIZE)
                            IN Ok(save_inode(t, attr), Resize(data, size))

RECURSIVE DeleteBlocks(_, _, _, _)
DeleteBlocks(t, ino, block, end_block) ==
  IF block >= end_block THEN t
  ELSE DeleteBlocks(delete(t, BlockKey(ino, block)), ino, block + 1, end_block)

\* clear_data that leaves the size as it was.
clear_data_keep_size(t, ino) ==
  LET a == read_inode(t, ino)
  IN IF a = None THEN Err(t, "InodeNotFound")
     ELSE LET attr == a[1]
              end_block == (attr.size + BLOCK_SIZE - 1) \div BLOCK_SIZE
              t1 == DeleteBlocks(t, ino, 0, end_block)
          IN Ok(save_inode(t1, attr), attr.size)

clear_data(t, ino) ==
  LET a == read_inode(t, ino)
  IN IF a = None THEN Err(t, "InodeNotFound")
     ELSE LET attr == a[1]
              end_block == (attr.size + BLOCK_SIZE - 1) \div BLOCK_SIZE
              t1 == DeleteBlocks(t, ino, 0, end_block)
          IN Ok(save_inode(t1, [attr EXCEPT !.size = 0]), attr.size)

BlockOrEmpty(t, ino, block) ==
  LET v == get(t, BlockKey(ino, block))
  IN IF v = None THEN empty_block ELSE v[1]

\* The while loop of write_data: the blocks after the first.
RECURSIVE WriteRest(_, _, _, _)
WriteRest(t, ino, block_index, rest) ==
  IF Len(rest) = 0 THEN t
  ELSE LET n == Min(BLOCK_SIZE, Len(rest))
           current_block == SubSeq(rest, 1, n)
           value == IF n < BLOCK_SIZE
                      THEN CopyInto(BlockOrEmpty(t, ino, block_index + 1), 0,
                                    current_block)
                      ELSE current_block
       IN WriteRest(put(t, BlockKey(ino, block_index + 1), value), ino,
                    block_index + 1, SubSeq(rest, n + 1, Len(rest)))

\* write_data that overlays the first block from its start.
write_blocks_from_zero(t, inode, start, data) ==
  LET ino == inode.ino
      size == Len(data)
      block_index == start \div BLOCK_SIZE
      n == Min(BLOCK_SIZE - (start % BLOCK_SIZE), size)
      start_value == CopyInto(BlockOrEmpty(t, ino, block_index), 0,
                              SubSeq(data, 1, n))
      t1 == put(t, BlockKey(ino, block_index), start_value)
      t2 == WriteRest(t1, ino, block_index, SubSeq(data, n + 1, size))
  IN Ok(save_inode(t2, [inode EXCEPT !.size = Max(inode.size, start + size)]),
        size)

\* The block path of write_data, the inode as read (and promoted).
write_blocks(t, inode, start, data) ==
  LET ino == inode.ino
      size == Len(data)
      target == start + size
      block_index == start \div BLOCK_SIZE
      start_index == start % BLOCK_SIZE
      first_block_size == BLOCK_SIZE - start_index
      n == Min(first_block_size, size)
      first_block == SubSeq(data, 1, n)
      rest == SubSeq(data, n + 1, size)
      start_value == CopyInto(BlockOrEmpty(t, ino, block_index), start_index,
                              first_block)
      t1 == put(t, BlockKey(ino, block_index), start_value)
      t2 == WriteRest(t1, ino, block_index, rest)
  IN Ok(save_inode(t2, [inode EXCEPT !.size = Max(inode.size, target)]), size)

write_data(t, ino, start, data) ==
  LET a == read_inode(t, ino)
  IN IF a = None THEN Err(t, "InodeNotFound")
     ELSE LET target == start + Len(data)
              p == IF a[1].inline # None /\ target > INLINE_DATA_THRESHOLD
                     THEN transfer_inline_data_to_block(t, a[1])
                     ELSE [t |-> t, inode |-> a[1]]
          IN IF (p.inode.inline # None \/ p.inode.size = 0)
                  /\ target <= INLINE_DATA_THRESHOLD
               THEN write_inline_data(p.t, p.inode, start, data)
               ELSE write_blocks(p.t, p.inode, start, data)

\* The caller passes the symlink's inode, read in the same transaction.
write_link(t, inode, data) ==
  write_inline_data(t, [inode EXCEPT !.inline = None, !.size = 0], 0, data)

\* The unwrap of read_inline_data panics on an inode without inline data.
read_link(t, ino) ==
  LET a == read_inode(t, ino)
  IN IF a = None THEN Err(t, "InodeNotFound")
     ELSE IF a[1].inline = None THEN Err(t, "panic")
     ELSE read_inline_data(t, a[1], 0, a[1].size)

\* The number of values of u64.
U64 == 2^64

\* An i64 cast to u64: a value from 0 up is kept, a negative one wraps
\* around to x + 2^64 (the cast never fails).  With the wrapping sum of
\* two i64 this is (offset + length) modulo 2^64.
as_u64(x) == IF x >= 0 THEN x ELSE x + U64

\* The caller passes the inode it has read in the same transaction, and
\* offset and length as signed integers.
fallocate(t, inode, offset, length) ==
  LET target_size == as_u64(offset + length)
  IN IF target_size <= inode.size THEN Ok(t, 0)
     ELSE IF inode.inline # None /\ target_size <= INLINE_DATA_THRESHOLD
       THEN LET r == write_inline_data(t, inode, inode.size,
                       [i \in 1..(target_size - inode.size) |-> 0])
            IN Ok(r.t, 0)
       ELSE LET p == IF inode.inline # None
                       THEN transfer_inline_data_to_block(t, inode)
                       ELSE [t |-> t, inode |-> inode]
            IN Ok(save_inode(p.t, [p.inode EXCEPT !.size = target_size]), 0)

\* ------------------------------------------------------------- state
\* store: the committed key-value store.
\* last:  the operation that has just run, until its caller takes the
\*        result: its arguments, its result, the store it started from
\*        (pre), the view it left in its transaction (post) and the keys
\*        it staged (w); and the number of operations run so far (n),
\*        of primitives among them (raw).
\* txns:  the open transactions of the concurrent specification.
\* hist:  the inode numbers allocated by committed transactions, in commit
\*        order.
\* work:  how many operations the transactions have run.
\* gone:  the inode numbers whose record a committed rmdir removed.
VARIABLES store, last, txns, hist, work, gone

vars == <<store, last, txns, hist, work, gone>>

NextIno(kv) == IF MetaKey \in DOMAIN kv THEN kv[MetaKey] ELSE MetaDefault

\* The store as the filesystem's initialisation leaves it: the root
\* directory made under the pseudo parent 0.
RootStore == mkdir(EmptyTxn, 0, "").t.kv

NoOp ==
  [op |-> "none", ino |-> 0, parent |-> 0, name |-> "", res |-> "ok",
   start |-> 0, data |-> <<>>, chunk |-> None,
   val |-> 0, pre |-> RootStore, post |-> RootStore, w |-> {}, n |-> 0,
   raw |-> 0]

\* One operation run in a transaction of its own on the committed store:
\* the caller commits when it returns Ok and rolls back when it fails.
Step(op, ino, parent, name, r) ==
  /\ last.op = "none"
  /\ last.n < MaxSteps
  /\ last' = [op |-> op, ino |-> ino, parent |-> parent, name |-> name,
              start |-> 0, data |-> <<>>, chunk |-> None, res |-> r.res,
              val |-> r.val, pre |-> store, post |-> r.t.kv,
              w |-> r.t.w, n |-> last.n + 1, raw |-> last.raw]
  /\ store' = IF r.res = "ok" THEN r.t.kv ELSE store
  /\ UNCHANGED <<txns, hist, work, gone>>

\* The caller has taken the result: the record of the operation is
\* dropped, the count of operations kept.
Return ==
  /\ last.op # "none"
  /\ last' = [NoOp EXCEPT !.n = last.n, !.raw = last.raw]
  /\ UNCHANGED <<store, txns, hist, work, gone>>

Init ==
  /\ store = RootStore
  /\ last = NoOp
  /\ txns = <<>>
  /\ hist = <<>>
  /\ work = 0
  /\ gone = {}

DoMakeInode ==
  \E parent \in Inos, name \in Names :
    /\ NextIno(store) <= MaxIno
    /\ Step("make_inode", 0, parent, name,
            make_inode(BeginOn(store), parent, name, "RegularFile"))

DoMkdir ==
  \E parent \in Inos, name \in Names :
    /\ NextIno(store) <= MaxIno
    /\ Step("mkdir", 0, parent, name, mkdir(BeginOn(store), parent, name))

DoLink ==
  \E ino \in Inos, parent \in Inos, name \in Names :
    Step("link", ino, parent, name, link(BeginOn(store), ino, parent, name))

DoUnlink ==
  \E parent \in Inos, name \in Names :
    Step("unlink", 0, parent, name, unlink(BeginOn(store), parent, name))

DoRmdir ==
  \E parent \in Inos, name \in Names :
    Step("rmdir", 0, parent, name, rmdir(BeginOn(store), parent, name))

\* The namespace operations, each in a transaction of its own.
NextOps == DoMakeInode \/ DoMkdir \/ DoLink \/ DoUnlink \/ DoRmdir \/ Return

SpecOps == Init /\ [][NextOps]_vars

\* The record primitives are public as well: a caller may run one on its
\* own and commit.  Its argument is kept in last.data, and last.raw counts
\* the primitives run this way.
StepRaw(op, ino, parent, name, arg, r) ==
  /\ last.op = "none"
  /\ last.n < MaxSteps
  /\ last.raw < MaxRaw
  /\ last' = [op |-> op, ino |-> ino, parent |-> parent, name |-> name,
              start |-> 0, data |-> arg, chunk |-> None, res |-> r.res,
              val |-> r.val, pre |-> store, post |-> r.t.kv,
              w |-> r.t.w, n |-> last.n + 1, raw |-> last.raw + 1]
  /\ store' = IF r.res = "ok" THEN r.t.kv ELSE store
  /\ UNCHANGED <<txns, hist, work, gone>>

\* The inode records and the listings callers pass to the primitives.
RawInodes ==
  {[NewInode(ino, typ) EXCEPT !.nlink = n] :
     ino \in Inos, typ \in Kinds, n \in 0..MaxNlink}

RawDirs ==
  {<<>>} \cup {<<DirItem(ino, name, typ)>> :
                 ino \in Inos, name \in Names, typ \in Kinds}

DoSetIndex ==
  \E parent \in Inos, name \in Names, ino \in Inos :
    StepRaw("set_index", ino, parent, name, <<>>,
            Ok(set_index(BeginOn(store), parent, name, ino), 0))

DoRemoveIndex ==
  \E parent \in Inos, name \in Names :
    StepRaw("remove_index", 0, parent, name, <<>>,
            Ok(remove_index(BeginOn(store), parent, name), 0))

DoSaveInode ==
  \E inode \in RawInodes :
    StepRaw("save_inode", inode.ino, 0, "", <<inode>>,
            Ok(save_inode(BeginOn(store), inode), 0))

DoRemoveInode ==
  \E ino \in Inos :
    StepRaw("remove_inode", ino, 0, "", <<>>,
            Ok(remove_inode(BeginOn(store), ino), 0))

DoSaveMeta ==
  \E inode_next \in Inos :
    StepRaw("save_meta", 0, 0, "", <<inode_next>>,
            Ok(save_meta(BeginOn(store), inode_next), 0))

DoSaveDir ==
  \E ino \in Inos, dir \in RawDirs :
    StepRaw("save_dir", ino, 0, "", dir, save_dir(BeginOn(store), ino, dir))

\* Every operation that changes the namespace records.
Next ==
  \/ NextOps
  \/ DoSetIndex \/ DoRemoveIndex
  \/ DoSaveInode \/ DoRemoveInode
  \/ DoSaveMeta \/ DoSaveDir

Spec == Init /\ [][Next]_vars

\* ------------------------------------------------ one file's content
\* The content operations on one regular file and one symbolic link, both
\* made under the root; the link is made with its first target written in
\* the same transaction.
DataIno == NextIno(RootStore)

LinkIno == DataIno + 1

FileStore ==
  LET f == make_inode(BeginOn(RootStore), ROOT_INODE, "a", "RegularFile")
      l == make_inode(f.t, ROOT_INODE, "b", "Symlink")
  IN write_link(l.t, read_inode(l.t, l.val)[1], <<1>>).t.kv

\* The byte strings callers write, and the lengths they ask for.
Datas == UNION {[1..n -> 1..MaxByte] : n \in 0..MaxLen}
Chunks == {None} \cup {Some(n) : n \in 0..MaxLen}

StepData(op, ino, start, data, chunk, r) ==
  /\ last.op = "none"
  /\ last.n < MaxDataSteps
  /\ last' = [op |-> op, ino |-> ino, parent |-> 0, name |-> "",
              start |-> start, data |-> data, chunk |-> chunk, res |-> r.res,
              val |-> r.val, pre |-> store, post |-> r.t.kv, w |-> r.t.w,
              n |-> last.n + 1, raw |-> last.raw]
  /\ store' = IF r.res = "ok" THEN r.t.kv ELSE store
  /\ UNCHANGED <<txns, hist, work, gone>>

InitData ==
  /\ store = FileStore
  /\ last = NoOp
  /\ txns = <<>>
  /\ hist = <<>>
  /\ work = 0
  /\ gone = {}

DoWrite ==
  \E start \in 0..MaxOff, data \in Datas :
    StepData("write_data", DataIno, start, data, None,
             write_data(BeginOn(store), DataIno, start, data))

DoRead ==
  \E start \in 0..MaxOff, chunk \in Chunks :
    StepData("read_data", DataIno, start, <<>>, chunk,
             read_data(BeginOn(store), DataIno, start, chunk))

DoClear ==
  StepData("clear_data", DataIno, 0, <<>>, None,
           clear_data(BeginOn(store), DataIno))

DoFallocate ==
  \E offset \in 0..MaxOff, length \in 0..MaxLen :
    LET t == BeginOn(store)
    IN StepData("fallocate", DataIno, offset, <<>>, Some(length),
                fallocate(t, read_inode(t, DataIno)[1], offset, length))

\* The targets written to the link: write_inline_data asserts that they
\* fit the inline threshold.
Targets == {[i \in 1..n |-> 1] : n \in 0..INLINE_DATA_THRESHOLD}

DoWriteLink ==
  \E data \in Targets :
    LET t == BeginOn(store)
    IN StepData("write_link", LinkIno, 0, data, None,
                write_link(t, read_inode(t, LinkIno)[1], data))

DoReadLink ==
  StepData("read_link", LinkIno, 0, <<>>, None,
           read_link(BeginOn(store), LinkIno))

NextData ==
  \/ DoWrite \/ DoRead \/ DoClear \/ DoFallocate
  \/ DoWriteLink \/ DoReadLink
  \/ Return

SpecData == InitData /\ [][NextData]_vars

\* ------------------------------------------- concurrent transactions
\* Optimistic transactions on the store: each reads the snapshot taken
\* when it began and its own writes; a commit is refused when a key the
\* transaction wrote was committed by another one after it began.  The
\* caller rolls a transaction back as soon as an operation fails.
TxnIds == 1..MaxTxn

Idle ==
  [st |-> "idle", t |-> EmptyTxn, stale |-> {}, n |-> 0, inos |-> <<>>,
   rm |-> {}]

\* The store with a transaction's staged writes applied.
Apply(kv, t) ==
  [k \in ((DOMAIN kv) \ t.w) \cup (t.w \cap DOMAIN t.kv) |->
     IF k \in t.w THEN t.kv[k] ELSE kv[k]]

InitTxn ==
  /\ store = RootStore
  /\ last = NoOp
  /\ txns = [i \in TxnIds |-> Idle]
  /\ hist = <<>>
  /\ work = 0
  /\ gone = {}

Begin(i) ==
  /\ txns[i].st = "idle"
  /\ work < MaxWork
  /\ txns' = [txns EXCEPT ![i] = [Idle EXCEPT !.st = "open",
                                              !.t = BeginOn(store)]]
  /\ UNCHANGED <<store, last, hist, work, gone>>

\* The transaction after an operation returned r; allocated is the inode
\* numbers the operation was given by make_inode, removed the inode
\* numbers whose record it removed through rmdir.
After(i, r, allocated, removed) ==
  /\ txns' = [txns EXCEPT ![i] =
       IF r.res = "ok"
         THEN [@ EXCEPT !.t = r.t, !.n = @ + 1, !.inos = @ \o allocated,
                        !.rm = @ \cup removed]
         ELSE Idle]
  /\ work' = work + 1
  /\ UNCHANGED <<store, last, hist, gone>>

\* The directory the name resolves to in the transaction's view, which
\* link hands to rmdir before it attaches the name; none otherwise.
DetachedDir(t, parent, name) ==
  LET old == get_index(t, parent, name)
  IN IF old # None /\ read_inode(t, old[1]) # None
          /\ read_inode(t, old[1])[1].kind = "Directory"
       THEN {old[1]} ELSE {}

CanRun(i) ==
  txns[i].st = "open" /\ txns[i].n < MaxOps /\ work < MaxWork

TxnMakeInode(i) ==
  \E parent \in Inos, name \in Names :
    /\ CanRun(i)
    /\ NextIno(txns[i].t.kv) <= MaxIno
    /\ LET r == make_inode(txns[i].t, parent, name, "RegularFile")
       IN After(i, r, <<r.val>>, {})

TxnMkdir(i) ==
  \E parent \in Inos, name \in Names :
    /\ CanRun(i)
    /\ NextIno(txns[i].t.kv) <= MaxIno
    /\ LET r == mkdir(txns[i].t, parent, name)
       IN After(i, r, <<r.val>>, {})

TxnLink(i) ==
  \E ino \in Inos, parent \in Inos, name \in Names :
    /\ CanRun(i)
    /\ After(i, link(txns[i].t, ino, parent, name), <<>>,
             DetachedDir(txns[i].t, parent, name))

TxnUnlink(i) ==
  \E parent \in Inos, name \in Names :
    /\ CanRun(i)
    /\ After(i, unlink(txns[i].t, parent, name), <<>>, {})

TxnRmdir(i) ==
  \E parent \in Inos, name \in Names :
    /\ CanRun(i)
    /\ After(i, rmdir(txns[i].t, parent, name), <<>>,
             IF get_index(txns[i].t, parent, name) = None THEN {}
             ELSE {get_index(txns[i].t, parent, name)[1]})

Conflicts(i) == txns[i].t.w \cap txns[i].stale # {}

Commit(i) ==
  /\ txns[i].st = "open"
  /\ ~Conflicts(i)
  /\ store' = Apply(store, txns[i].t)
  /\ hist' = hist \o txns[i].inos
  /\ txns' = [j \in TxnIds |->
       IF j = i THEN Idle
       ELSE IF txns[j].st = "open"
         THEN [txns[j] EXCEPT !.stale = @ \cup txns[i].t.w]
         ELSE txns[j]]
  /\ gone' = gone \cup txns[i].rm
  /\ UNCHANGED <<last, work>>

\* A refused commit, or a caller giving up: the staged writes are dropped.
Abandon(i) ==
  /\ txns[i].st = "open"
  /\ txns' = [txns EXCEPT ![i] = Idle]
  /\ UNCHANGED <<store, last, hist, work, gone>>

NextTxn ==
  \E i \in TxnIds :
    \/ Begin(i)
    \/ TxnMakeInode(i)
    \/ TxnMkdir(i)
    \/ TxnLink(i)
    \/ TxnUnlink(i)
    \/ TxnRmdir(i)
    \/ Commit(i)
    \/ Abandon(i)

SpecTxn == InitTxn /\ [][NextTxn]_vars

\* ------------------------------------------------ reading a store
HasInode(kv, ino) == InodeKey(ino) \in DOMAIN kv
Nlink(kv, ino) == kv[InodeKey(ino)].nlink
HasDir(kv, ino) == DirKey(ino) \in DOMAIN kv
Listing(kv, ino) == IF HasDir(kv, ino) THEN kv[DirKey(ino)] ELSE <<>>
HasIndex(kv, parent, name) == IndexKey(parent, name) \in DOMAIN kv
Index(kv, parent, name) == kv[IndexKey(parent, name)]
IndexNames(kv, parent) == {n \in Names : HasIndex(kv, parent, n)}
ListingNames(dir) == {dir[i].name : i \in DOMAIN dir}
EntriesNamed(dir, name) == {i \in DOMAIN dir : dir[i].name = name}
\* The link count of a record, 0 when the record is absent.
NlinkOr0(kv, ino) == IF HasInode(kv, ino) THEN Nlink(kv, ino) ELSE 0

\* ------------------------------------------------------------ claims

\* C2: in every committed store, for every directory D the names with an
\* index entry (D, name) are exactly the names of D's listing, no name
\* occurs twice in the listing, and each listing entry carries the inode
\* number of its index entry.
C2_IndexListingConsistent ==
  \A d \in Inos :
    LET dir == Listing(store, d)
    IN /\ IndexNames(store, d) = ListingNames(dir)
       /\ \A i, j \in DOMAIN dir : dir[i].name = dir[j].name => i = j
       /\ \A i \in DOMAIN dir : Index(store, d, dir[i].name) = dir[i].ino

\* An unlink has just committed and left another entry in a listing that
\* held two.
C2_Witness ==
  /\ last.op = "unlink" /\ last.res = "ok"
  /\ Len(Listing(last.pre, last.parent)) = 2
  /\ Len(Listing(store, last.parent)) = 1

\* C3: no inode record with link_count = 0 is ever stored, in the committed
\* store or in any transaction's view; and once unlink has driven an
\* inode's link_count from 1 to 0, read_inode of it finds nothing.
C3_Tombstone ==
  /\ \A ino \in Inos :
       /\ HasInode(store, ino) => Nlink(store, ino) > 0
       /\ HasInode(last.post, ino) => Nlink(last.post, ino) > 0
  /\ (/\ last.op = "unlink" /\ last.res = "ok"
      /\ Nlink(last.pre, Index(last.pre, last.parent, last.name)) = 1)
     => read_inode(BeginOn(last.post),
                   Index(last.pre, last.parent, last.name)) = None

C3_Witness ==
  /\ last.op = "unlink" /\ last.res = "ok"
  /\ Nlink(last.pre, Index(last.pre, last.parent, last.name)) = 1
  /\ ~HasInode(store, Index(last.pre, last.parent, last.name))

\* link(ino, parent, name) of an inode that has a record, onto a name that
\* resolves to a different inode old, where old is no directory or a
\* directory with an empty listing.
LinkRedirects ==
  /\ last.op = "link"
  /\ HasInode(last.pre, last.ino)
  /\ HasIndex(last.pre, last.parent, last.name)
  /\ Index(last.pre, last.parent, last.name) # last.ino
  /\ LET old == Index(last.pre, last.parent, last.name)
     IN (HasInode(last.pre, old) /\ last.pre[InodeKey(old)].kind = "Directory")
        => Listing(last.pre, old) = <<>>

\* C7: link(ino, parent, name) onto a name that resolved to a different
\* inode old succeeds and leaves old with one link fewer when it is no
\* directory (no record when that is zero) and with no record when it is
\* an empty directory; the name resolves to ino, parent's listing holds
\* exactly one entry of that name and it points to ino, and ino has one
\* link more.
C7_LinkRedirection ==
  LinkRedirects
  => LET old == Index(last.pre, last.parent, last.name)
         dir == Listing(last.post, last.parent)
     IN /\ last.res = "ok"
        /\ HasInode(last.pre, old)
        /\ IF last.pre[InodeKey(old)].kind = "Directory"
             THEN ~HasInode(last.post, old)
             ELSE NlinkOr0(last.post, old) = Nlink(last.pre, old) - 1
        /\ lookup(BeginOn(last.post), last.parent, last.name)
             = Ok(BeginOn(last.post), last.ino)
        /\ Cardinality(EntriesNamed(dir, last.name)) = 1
        /\ \A i \in EntriesNamed(dir, last.name) : dir[i].ino = last.ino
        /\ HasInode(last.post, last.ino)
        /\ Nlink(last.post, last.ino) = Nlink(last.pre, last.ino) + 1

\* The same for the calls in which parent and old have inode records.
C7_WithRecords ==
  (/\ LinkRedirects
   /\ HasInode(last.pre, last.parent)
   /\ HasInode(last.pre, Index(last.pre, last.parent, last.name)))
  => LET old == Index(last.pre, last.parent, last.name)
         dir == Listing(last.post, last.parent)
     IN /\ last.res = "ok"
        /\ IF last.pre[InodeKey(old)].kind = "Directory"
             THEN ~HasInode(last.post, old)
             ELSE NlinkOr0(last.post, old) = Nlink(last.pre, old) - 1
        /\ lookup(BeginOn(last.post), last.parent, last.name)
             = Ok(BeginOn(last.post), last.ino)
        /\ Cardinality(EntriesNamed(dir, last.name)) = 1
        /\ \A i \in EntriesNamed(dir, last.name) : dir[i].ino = last.ino
        /\ HasInode(last.post, last.ino)
        /\ Nlink(last.post, last.ino) = Nlink(last.pre, last.ino) + 1

\* rmdir of a name whose directory has a non-empty listing.
C8_Refuses ==
  (/\ last.op = "rmdir"
   /\ HasIndex(last.pre, last.parent, last.name)
   /\ HasDir(last.pre, Index(last.pre, last.parent, last.name))
   /\ Listing(last.pre, Index(last.pre, last.parent, last.name)) # <<>>)
  => /\ last.res = "DirNotEmpty"
     /\ last.w = {}
     /\ last.post = last.pre

\* rmdir of a name whose directory has an empty listing.
C8_Removes ==
  (/\ last.op = "rmdir"
   /\ HasIndex(last.pre, last.parent, last.name)
   /\ HasDir(last.pre, Index(last.pre, last.parent, last.name))
   /\ Listing(last.pre, Index(last.pre, last.parent, last.name)) = <<>>)
  => /\ last.res = "ok"
     /\ lookup(BeginOn(last.post), last.parent, last.name).res = "FileNotFound"
     /\ read_inode(BeginOn(last.post),
                   Index(last.pre, last.parent, last.name)) = None
     /\ EntriesNamed(Listing(last.post, last.parent), last.name) = {}

\* C8: rmdir of a name whose directory has a non-empty listing fails with
\* DirNotEmpty and stages nothing; rmdir of a name whose directory has an
\* empty listing succeeds, after which the name does not resolve, the
\* directory's inode record is gone and parent's listing has no entry of
\* that name.
C8_RmdirGuard == C8_Refuses /\ C8_Removes

\* C9: make_inode under a real parent whose index already holds the name
\* fails with FileExist having staged the metadata counter, one higher,
\* and nothing else.
C9_ExistingName ==
  (/\ last.op \in {"make_inode", "mkdir"}
   /\ last.parent >= ROOT_INODE
   /\ HasIndex(last.pre, last.parent, last.name))
  => /\ last.res = "FileExist"
     /\ last.w = {MetaKey}
     /\ last.post = save_meta(BeginOn(last.pre), NextIno(last.pre) + 1).kv
     /\ ~HasInode(last.post, NextIno(last.pre))

C9_Witness ==
  /\ last.op = "make_inode" /\ last.res = "FileExist"
  /\ HasIndex(last.pre, last.parent, last.name)
  /\ NextIno(last.post) = NextIno(last.pre) + 1

\* unlink of a name with no index entry.
C10_Absent ==
  (last.op = "unlink" /\ ~HasIndex(last.pre, last.parent, last.name))
  => /\ last.res = "FileNotFound"
     /\ last.w = {}
     /\ last.post = last.pre

\* The effects of unlink on a name that resolves to t.
UnlinkEffects ==
  LET t == Index(last.pre, last.parent, last.name)
  IN /\ last.res = "ok"
     /\ ~HasIndex(last.post, last.parent, last.name)
     /\ \A p \in Inos, n \in Names :
          <<p, n>> # <<last.parent, last.name>> =>
            /\ HasIndex(last.post, p, n) = HasIndex(last.pre, p, n)
            /\ HasIndex(last.pre, p, n) =>
                 Index(last.post, p, n) = Index(last.pre, p, n)
     /\ HasDir(last.post, last.parent)
     /\ Listing(last.post, last.parent)
          = FilterName(Listing(last.pre, last.parent), last.name)
     /\ \A d \in Inos \ {last.parent} :
          /\ HasDir(last.post, d) = HasDir(last.pre, d)
          /\ Listing(last.post, d) = Listing(last.pre, d)
     /\ HasInode(last.pre, t)
     /\ NlinkOr0(last.post, t) = Nlink(last.pre, t) - 1
     /\ \A i \in Inos \ {t} :
          /\ HasInode(last.post, i) = HasInode(last.pre, i)
          /\ NlinkOr0(last.post, i) = NlinkOr0(last.pre, i)

\* unlink of a name that has an index entry.
C10_Present ==
  (last.op = "unlink" /\ HasIndex(last.pre, last.parent, last.name))
  => UnlinkEffects

\* C10: unlink of a name with no index entry fails with FileNotFound and
\* stages nothing; unlink of a present name resolving to t removes that
\* index entry and no other, filters the entries of that name out of
\* parent's listing, lowers t's link_count by one, and leaves every other
\* listing and every other inode's link_count as they were.
C10_UnlinkFrame == C10_Absent /\ C10_Present

\* The present-name half for the calls in which parent and the target
\* have inode records.
C10_WithRecords ==
  (/\ last.op = "unlink" /\ HasIndex(last.pre, last.parent, last.name)
   /\ HasInode(last.pre, last.parent)
   /\ HasInode(last.pre, Index(last.pre, last.parent, last.name)))
  => UnlinkEffects

\* C1: the inode numbers allocated by committed transactions, in commit
\* order (and call order within a transaction), are strictly increasing;
\* no number is handed out twice.
C1_InodeUniqueness ==
  \A i, j \in DOMAIN hist : i < j => hist[i] < hist[j]

\* Two allocations are committed, and an open transaction holds an
\* allocation made from a counter that has since been committed over.
C1_Witness ==
  /\ Len(hist) >= 2
  /\ \E i \in TxnIds :
       /\ txns[i].st = "open"
       /\ txns[i].inos # <<>>
       /\ MetaKey \in txns[i].stale

\* ------------------------------------------------- content claims
InodeOf(kv, ino) == kv[InodeKey(ino)]

\* The byte at position p of the block store: the stored block's byte, or
\* 0 where no block is stored.
ByteAt(kv, ino, p) ==
  IF BlockKey(ino, p \div BLOCK_SIZE) \in DOMAIN kv
    THEN kv[BlockKey(ino, p \div BLOCK_SIZE)][(p % BLOCK_SIZE) + 1]
    ELSE 0

\* The length read_data clamps a request to.
Clamped(size, start, chunk) ==
  IF start >= size THEN 0
  ELSE Min(IF chunk = None THEN size - start ELSE chunk[1], size - start)

\* C4: read_data of a block-backed file returns, for each position of the
\* clamped range, the byte of the stored block there and 0 where the block
\* is absent.
C4_SparseRead ==
  (/\ last.op = "read_data"
   /\ InodeOf(last.pre, last.ino).inline = None)
  => /\ last.res = "ok"
     /\ last.val =
          [i \in 1..Clamped(InodeOf(last.pre, last.ino).size, last.start,
                            last.chunk) |->
             ByteAt(last.pre, last.ino, last.start + i - 1)]

\* C5: after write_data(ino, offset, data), read_data(ino, offset,
\* len(data)) returns data.
C5_RoundTrip ==
  (last.op = "write_data" /\ last.res = "ok")
  => LET r == read_data(BeginOn(last.post), last.ino, last.start,
                        Some(Len(last.data)))
     IN r.res = "ok" /\ r.val = last.data

\* A write that took the block path over a hole, into a file that had
\* content before.
C5_Witness ==
  /\ last.op = "write_data" /\ last.res = "ok"
  /\ Len(last.data) = MaxLen
  /\ InodeOf(last.pre, last.ino).size > 0
  /\ InodeOf(last.post, last.ino).inline = None
  /\ last.start >= BLOCK_SIZE
  /\ ~(BlockKey(last.ino, 0) \in DOMAIN last.post)

\* C6: a write that takes an inline file of size s past the threshold
\* leaves no inline data, and the whole file then reads as the old bytes,
\* zeros up to the offset, and the written bytes.
C6_Crossover ==
  (/\ last.op = "write_data" /\ last.res = "ok"
   /\ InodeOf(last.pre, last.ino).inline # None
   /\ last.start + Len(last.data) > INLINE_DATA_THRESHOLD)
  => LET old == InodeOf(last.pre, last.ino)
         s == old.size
         new_size == Max(s, last.start + Len(last.data))
         r == read_data(BeginOn(last.post), last.ino, 0, None)
     IN /\ InodeOf(last.post, last.ino).inline = None
        /\ InodeOf(last.post, last.ino).size = new_size
        /\ r.res = "ok"
        /\ r.val = [i \in 1..new_size |->
                      IF i > last.start /\ i <= last.start + Len(last.data)
                        THEN last.data[i - last.start]
                        ELSE IF i <= s THEN old.inline[1][i] ELSE 0]

\* C11: clear_data succeeds on a file of either backing, returns the size
\* the file had, leaves the stored size 0, and every read_data afterwards,
\* whatever its offset and length, returns no bytes.
C11_ClearData ==
  (last.op = "clear_data")
  => /\ last.res = "ok"
     /\ last.val = InodeOf(last.pre, last.ino).size
     /\ InodeOf(last.post, last.ino).size = 0
     /\ \A start \in 0..(MaxOff + MaxLen), chunk \in Chunks :
          read_data(BeginOn(last.post), last.ino, start, chunk)
            = Ok(BeginOn(last.post), <<>>)

\* clear_data has run on an inline-backed file that had content.
C11_Witness ==
  /\ last.op = "clear_data" /\ last.res = "ok"
  /\ InodeOf(last.pre, last.ino).inline # None
  /\ InodeOf(last.pre, last.ino).size > 0
  /\ last.val > 0

\* The indices of the content blocks stored for an inode.
Blocks(kv, ino) ==
  {k[3] : k \in {x \in DOMAIN kv : x[1] = "block" /\ x[2] = ino}}

\* ceil(size / BLOCK_SIZE), as clear_data and read_data compute it.
BlockCount(size) == (size + BLOCK_SIZE - 1) \div BLOCK_SIZE

\* C12: every stored inode with inline data present has an inline buffer
\* exactly as long as its size, and a regular file's size is then at most
\* INLINE_DATA_THRESHOLD.
C12_InlineMatchesSize ==
  \A ino \in Inos :
    (HasInode(store, ino) /\ InodeOf(store, ino).inline # None)
    => /\ Len(InodeOf(store, ino).inline[1]) = InodeOf(store, ino).size
       /\ InodeOf(store, ino).kind = "RegularFile"
            => InodeOf(store, ino).size <= INLINE_DATA_THRESHOLD

\* C13: no stored inode has inline data present while a content block of
\* that inode is stored.
C13_InlineBlockExclusive ==
  \A ino \in Inos :
    (HasInode(store, ino) /\ InodeOf(store, ino).inline # None)
    => Blocks(store, ino) = {}

\* C16: every stored content block (ino, b) has b < ceil(size(ino) /
\* BLOCK_SIZE), and clear_data leaves no content block of its inode.
C16_BlocksWithinSize ==
  /\ \A ino \in Inos :
       HasInode(store, ino)
       => \A b \in Blocks(store, ino) :
            b < BlockCount(InodeOf(store, ino).size)
  /\ (last.op = "clear_data" /\ last.res = "ok")
     => Blocks(last.post, last.ino) = {}

\* What read_data returns for the one byte at position p.
ReadByte(kv, ino, p) == read_data(BeginOn(kv), ino, p, Some(1)).val

\* C14: write_data(ino, offset, data) succeeds, returns len(data), sets the
\* size to max(old size, offset + len(data)); every position below the old
\* size outside the written range reads as before, and every position from
\* the old size up to the offset reads as zero.
C14_WriteFrame ==
  (last.op = "write_data")
  => LET old_size == InodeOf(last.pre, last.ino).size
         target == last.start + Len(last.data)
         new_size == Max(old_size, target)
     IN /\ last.res = "ok"
        /\ last.val = Len(last.data)
        /\ InodeOf(last.post, last.ino).size = new_size
        /\ \A p \in 0..(new_size - 1) :
             (p < last.start \/ p >= target)
             => ReadByte(last.post, last.ino, p)
                  = IF p < old_size THEN ReadByte(last.pre, last.ino, p)
                    ELSE <<0>>

\* C15: fallocate(inode, offset, length) stages nothing when offset +
\* length <= size; otherwise the size becomes offset + length, no block is
\* newly stored except block 0 when an inline file is promoted, inline
\* data is present afterwards only if offset + length <=
\* INLINE_DATA_THRESHOLD, and the file reads as its previous content
\* followed by zeros.
C15_Fallocate ==
  (last.op = "fallocate")
  => LET old == InodeOf(last.pre, last.ino)
         target == last.start + last.chunk[1]
         before == read_data(BeginOn(last.pre), last.ino, 0, None).val
         after == read_data(BeginOn(last.post), last.ino, 0, None).val
     IN /\ last.res = "ok"
        /\ IF target <= old.size
             THEN last.w = {} /\ last.post = last.pre
             ELSE /\ InodeOf(last.post, last.ino).size = target
                  /\ Blocks(last.post, last.ino) \ Blocks(last.pre, last.ino)
                       \subseteq (IF old.inline # None
                                       /\ target > INLINE_DATA_THRESHOLD
                                    THEN {0} ELSE {})
                  /\ InodeOf(last.post, last.ino).inline # None
                       => target <= INLINE_DATA_THRESHOLD
                  /\ after = [i \in 1..target |->
                                IF i <= Len(before) THEN before[i] ELSE 0]

\* The calls that may follow a clear_data: a write of data at start, or an
\* allocation of Len(data) bytes at start.
Calls ==
  [kind : {"write_data"}, start : 0..MaxOff, data : Datas]
    \cup [kind : {"fallocate"}, start : 0..MaxOff,
          data : {[i \in 1..n |-> 0] : n \in 0..MaxLen}]

\* The store after call c has run on store kv and committed.
RunCall(kv, ino, c) ==
  IF c.kind = "write_data"
    THEN write_data(BeginOn(kv), ino, c.start, c.data).t.kv
    ELSE fallocate(BeginOn(kv), InodeOf(kv, ino), c.start, Len(c.data)).t.kv

\* The content written since the clear, once call c has been made: zeros
\* up to the largest offset + length, the written bytes where data went.
Written(sofar, c) ==
  LET grown == Resize(sofar, Max(Len(sofar), c.start + Len(c.data)))
  IN IF c.kind = "write_data" THEN CopyInto(grown, c.start, c.data) ELSE grown

\* The file of store kv has the size of the content written since the
\* clear, and each position reads as the byte written there or as zero.
OnlyWritten(kv, ino, sofar) ==
  /\ InodeOf(kv, ino).size = Len(sofar)
  /\ \A p \in 0..(Len(sofar) - 1) :
       ReadByte(kv, ino, p) \in {<<sofar[p + 1]>>, <<0>>}

\* C17: after clear_data, for the write_data and fallocate calls that
\* follow (one call, and any two in a row), every byte read is the byte
\* written at its position after the clear or zero, and the size is the
\* largest offset + length written or allocated after the clear.
C17_NoStaleContent ==
  (last.op = "clear_data" /\ last.res = "ok")
  => \A c1 \in Calls :
       LET kv1 == RunCall(last.post, last.ino, c1)
           w1 == Written(<<>>, c1)
       IN /\ OnlyWritten(kv1, last.ino, w1)
          /\ \A c2 \in Calls :
               OnlyWritten(RunCall(kv1, last.ino, c2), last.ino,
                           Written(w1, c2))

\* The number of index entries whose value is ino.
IndexCount(kv, ino) ==
  Cardinality({e \in Inos \X Names :
                 HasIndex(kv, e[1], e[2]) /\ Index(kv, e[1], e[2]) = ino})

\* C18: in every committed store each inode's link_count is the number of
\* index entries whose value is that inode (the root, made under the
\* pseudo parent 0, has one link with no entry), and every index entry's
\* value is an inode whose record exists.
C18_LinkAccounting ==
  /\ \A ino \in Inos :
       HasInode(store, ino)
       => Nlink(store, ino)
            = IndexCount(store, ino) + (IF ino = ROOT_INODE THEN 1 ELSE 0)
  /\ \A parent \in Inos, name \in Names :
       HasIndex(store, parent, name)
       => HasInode(store, Index(store, parent, name))

\* An inode number that was allocated and has no record any more: every
\* committed allocation stores a record, so the record was removed.
Removed(kv, ino) == ino >= ROOT_INODE /\ ino < NextIno(kv) /\ ~HasInode(kv, ino)

\* C20: in every committed store, an inode whose record has been removed
\* has no directory listing record and no content block record.
C20_NoOrphans ==
  \A ino \in Inos :
    Removed(store, ino)
    => ~HasDir(store, ino) /\ Blocks(store, ino) = {}

\* Transaction j has staged an entry inside directory d.
AddsInside(j, d) ==
  \E n \in Names :
    /\ IndexKey(d, n) \in txns[j].t.w
    /\ IndexKey(d, n) \in DOMAIN txns[j].t.kv

\* A transaction that has run rmdir on directory d and a concurrent one
\* that has added an entry inside d have staged a common key.
C19_CommonKey ==
  \A i, j \in TxnIds :
    (/\ i # j
     /\ txns[i].st = "open" /\ txns[j].st = "open"
     /\ \E d \in txns[i].rm : AddsInside(j, d))
    => txns[i].t.w \cap txns[j].t.w # {}

\* In every committed store a directory whose inode record rmdir removed
\* has no index entry and no listing entry.
C19_NoEntries ==
  \A d \in gone :
    IndexNames(store, d) = {} /\ Listing(store, d) = <<>>

\* C19: a transaction that has run rmdir on directory d and a concurrent
\* one that has added an entry inside d have staged a common key, so the
\* second to commit is refused; and in every committed store a directory
\* whose inode record rmdir removed has no index entry and no listing
\* record.
C19_RmdirAddConflict ==
  /\ C19_CommonKey
  /\ \A d \in gone :
       IndexNames(store, d) = {} /\ ~HasDir(store, d)

====
